---------------------------- MODULE Spec2Model ----------------------------
(***************************************************************************)
(* HHAPIClient (src/hh_api_client.py): validation of an employer id, the   *)
(* existence lookup, the paginated list loop that accumulates raw vacancy  *)
(* records in self.data, the batch loop over several employers, and the    *)
(* projections get_info / get_areas / get_employers / get_vacancies.       *)
(*                                                                         *)
(* The HTTP server is the environment: every lookup and every list request *)
(* is answered by a nondeterministically chosen response.                  *)
(***************************************************************************)
EXTENDS Integers, Sequences, FiniteSets, TLC

(***************************************************************************)
(* Bounds of the model.                                                    *)
(***************************************************************************)
MaxBatch == 2      \* longest emp_ids list passed to load_vacancies_by_emp_ids
MaxPages == 2      \* largest "pages" value a list response reports
MaxItems == 1      \* most records in the "items" of one list response
MaxData  == 2      \* the server stops returning records once self.data has this many
MaxLen   == 3      \* longest accumulated list the projections are applied to (SpecProj)

(***************************************************************************)
(* Python values that occur as ids: t is the Python type, n the numeric    *)
(* value (bool is a subclass of int: True has value 1, False value 0),     *)
(* ds the decimal digits of a str.                                         *)
(***************************************************************************)
IntV(n)   == [t |-> "int",   n |-> n, ds |-> <<>>]
BoolV(b)  == [t |-> "bool",  n |-> IF b THEN 1 ELSE 0, ds |-> <<>>]
StrV(ds)  == [t |-> "str",   n |-> 0, ds |-> ds]
FloatV(n) == [t |-> "float", n |-> n, ds |-> <<>>]
None      == [t |-> "NoneType", n |-> 0, ds |-> <<>>]

\* isinstance(x, int): true of int and of its subclass bool
IsInstanceInt(x) == x.t \in {"int", "bool"}

\* what the specification calls a positive integer
IsPositiveInteger(x) == x.t = "int" /\ x.n > 0

\* the employer ids callers pass
IdArgs == {IntV(1), IntV(2), IntV(0), IntV(-1), BoolV(TRUE), StrV(<<1>>), FloatV(1), None}

(***************************************************************************)
(* Outcomes of a call: a normal return or a raised exception.              *)
(***************************************************************************)
Return(v)       == [kind |-> "return", val |-> v, exc |-> "", msg |-> ""]
Raise(exc, msg) == [kind |-> "raise", val |-> None, exc |-> exc, msg |-> msg]

InvalidInput == Raise("ValueError", "Invalid employer ID")
NotFound     == Raise("ValueError", "Employer ID does not exist")
LookupFailed == Raise("ValueError", "Failed to check employer ID")
NoOutcome    == [kind |-> "none", val |-> None, exc |-> "", msg |-> ""]


(***************************************************************************)
(* int(x) of Python, on the values above: a str is parsed digit by digit.  *)
(***************************************************************************)
RECURSIVE DigitsValue(_)
DigitsValue(ds) ==
  IF ds = <<>> THEN 0
  ELSE 10 * DigitsValue(SubSeq(ds, 1, Len(ds) - 1)) + ds[Len(ds)]

PyInt(x) ==
  CASE x.t \in {"int", "bool", "float"} -> Return(IntV(x.n))
    [] x.t = "str" -> IF x.ds = <<>> THEN Raise("ValueError", "invalid literal for int()")
                      ELSE Return(IntV(DigitsValue(x.ds)))
    [] OTHER -> Raise("TypeError", "int() argument must be a string or a number")

(***************************************************************************)
(* Vacancy records as the list endpoint returns them.  A nested value is   *)
(* absent (key missing), null, or an object.                               *)
(***************************************************************************)
Obj(id, name, url) == [kind |-> "object", id |-> id, name |-> name, url |-> url]
Absent             == [kind |-> "absent", id |-> None, name |-> "", url |-> ""]
Null               == [kind |-> "null",   id |-> None, name |-> "", url |-> ""]

Salary(from) == [kind |-> "object", from |-> from]
NoSalary     == [kind |-> "absent", from |-> None]
NullSalary   == [kind |-> "null",   from |-> None]

Vacancy(id, name, area, employer, salary, url) ==
  [id |-> id, name |-> name, area |-> area, employer |-> employer,
   salary |-> salary, url |-> url]

Moscow == Obj(IntV(1), "Moscow", "a1")
Msk    == Obj(IntV(1), "Msk", "a1b")
Kazan  == Obj(StrV(<<2>>), "Kazan", "a2")
Acme   == Obj(IntV(10), "Acme", "e10")
ACME   == Obj(IntV(10), "ACME", "e10b")
Beta   == Obj(StrV(<<1, 1>>), "Beta", "e11")

V1 == Vacancy(IntV(1), "A", Moscow, Acme, Salary(IntV(1000)), "u1")
V2 == Vacancy(IntV(2), "B", Moscow, Beta, Salary(IntV(2000)), "u2")
V3 == Vacancy(StrV(<<1, 2>>), "C", Msk, ACME, NoSalary, "u3")
V4 == Vacancy(StrV(<<3>>), "D", Kazan, Acme, Salary(None), "u4")
V5 == Vacancy(IntV(5), "E", Absent, Beta, Salary(IntV(5000)), "u5")
V6 == Vacancy(IntV(6), "F", Null, Acme, Salary(IntV(6000)), "u6")
V7 == Vacancy(IntV(7), "G", Kazan, Null, Salary(IntV(7000)), "u7")
V8 == Vacancy(IntV(8), "H", Kazan, Beta, NullSalary, "u8")

\* the records the projections are checked on
ProjRecords == {V1, V2, V3, V4, V5, V6, V7, V8}

\* the records the list endpoint serves in the fetch model
FetchRecords == {V1, V3}

\* a record every projection accepts
WellFormed(v) ==
  /\ v.area.kind = "object" /\ PyInt(v.area.id).kind = "return"
  /\ v.employer.kind = "object" /\ PyInt(v.employer.id).kind = "return"
  /\ v.salary.kind \in {"object", "absent"}
  /\ PyInt(v.id).kind = "return"

SeqsUpTo(S, n) == UNION {[1..k -> S] : k \in 0..n}

(***************************************************************************)
(* Results of the projections: a returned view or a raised exception.      *)
(***************************************************************************)
EmptyDict == [k \in {} |-> None]
RetView(op, v)    == [op |-> op, kind |-> "return", val |-> v, exc |-> ""]
RaiseView(op, e)  == [op |-> op, kind |-> "raise", val |-> <<>>, exc |-> e]
NoView            == [op |-> "", kind |-> "none", val |-> <<>>, exc |-> ""]

\* `if key not in d: d[key] = value` keeps the value stored first
SetLast(d, k, v) == (k :> v) @@ d
SetDefault(d, k, v) == IF k \in DOMAIN d THEN d ELSE d @@ (k :> v)

RECURSIVE AreasLoop(_, _, _)
AreasLoop(d, i, areas) ==
  IF i > Len(d) THEN RetView("get_areas", areas)
  ELSE LET area == d[i].area IN
       IF area.kind # "object"          \* vacancy.get('area') is None: None.get
       THEN RaiseView("get_areas", "AttributeError")
       ELSE AreasLoop(d, i + 1,
              SetDefault(areas, area.id, [name |-> area.name, url |-> area.url]))

get_areas(d) == AreasLoop(d, 1, EmptyDict)

RECURSIVE EmployersLoop(_, _, _)
EmployersLoop(d, i, employers) ==
  IF i > Len(d) THEN RetView("get_employers", employers)
  ELSE LET employer == d[i].employer IN
       IF employer.kind # "object"
       THEN RaiseView("get_employers", "AttributeError")
       ELSE EmployersLoop(d, i + 1,
              SetDefault(employers, employer.id,
                [name |-> employer.name, url |-> employer.url, open_vacancies |-> 0]))

get_employers(d) == EmployersLoop(d, 1, EmptyDict)

\* list.append adds one element at the end, whatever the list holds
AppendDistinct(l, x) == IF \E j \in 1..Len(l) : l[j] = x THEN l ELSE Append(l, x)
ListAppend(l, x) == Append(l, x)

\* one iteration of the loop of get_vacancies: the tuple built from a record,
\* or the exception the first failing expression raises
Flatten(v) ==
  IF v.salary.kind = "null" THEN Raise("AttributeError", "salary.get")
  ELSE IF v.employer.kind # "object" THEN Raise("AttributeError", "employer.get")
  ELSE IF PyInt(v.id).kind = "raise" THEN PyInt(v.id)
  ELSE IF v.area.kind = "null" THEN Raise("AttributeError", "area.get")
  ELSE IF PyInt(v.area.id).kind = "raise" THEN PyInt(v.area.id)
  ELSE IF PyInt(v.employer.id).kind = "raise" THEN PyInt(v.employer.id)
  ELSE [kind |-> "return", exc |-> "", msg |-> "",
        val |-> [id |-> PyInt(v.id).val.n, name |-> v.name,
                 area_id |-> PyInt(v.area.id).val.n, salary |-> v.salary.from,
                 employer_id |-> PyInt(v.employer.id).val.n, url |-> v.url]]

RECURSIVE VacanciesLoop(_, _, _)
VacanciesLoop(d, i, vacancies_list) ==
  IF i > Len(d) THEN RetView("get_vacancies", vacancies_list)
  ELSE LET t == Flatten(d[i]) IN
       IF t.kind = "raise" THEN RaiseView("get_vacancies", t.exc)
       ELSE VacanciesLoop(d, i + 1, ListAppend(vacancies_list, t.val))

get_vacancies(d) == VacanciesLoop(d, 1, <<>>)

get_info(d) == RetView("get_info", d)


(***************************************************************************)
(* Validation and the existence lookup.                                    *)
(***************************************************************************)
valid_id(employer_id) ==
  IF IsInstanceInt(employer_id) /\ employer_id.n > 0
  THEN Return(employer_id)
  ELSE InvalidInput

\* the lookup endpoint answers with a status, or the request itself fails
LookupStatuses  == {200, 404, 500, 503}
LookupResponses ==
  {[kind |-> "response", status |-> st] : st \in LookupStatuses}
    \cup {[kind |-> "conn_error", status |-> 0]}

check_existence_404_only(resp) ==
  IF resp.kind = "conn_error" THEN Raise("ConnectionError", "")
  ELSE IF resp.status = 404 THEN NotFound
  ELSE Return(BoolV(TRUE))

check_existence_one_error(resp) ==
  IF resp.kind = "conn_error" THEN Raise("ConnectionError", "")
  ELSE IF resp.status = 200 THEN Return(BoolV(TRUE))
  ELSE NotFound

check_existence(resp) ==
  IF resp.kind = "conn_error" THEN Raise("ConnectionError", "")
  ELSE IF resp.status = 200 THEN Return(BoolV(TRUE))
  ELSE IF resp.status = 404 THEN NotFound
  ELSE LookupFailed

(***************************************************************************)
(* The pieces of the pagination loop.                                      *)
(***************************************************************************)
\* self.params['page'] = 0
KeepPage(page) == page
ResetPage(page) == 0

\* self.data.extend(vacancies)
ExtendDistinct(d, items) ==
  d \o SelectSeq(items, LAMBDA x : \A j \in 1..Len(d) : d[j] # x)
Extend(d, items) == d \o items

\* if self.params['page'] >= data['pages'] - 1: break
LastPageOffByOne(page, pages) == page >= pages
LastPage(page, pages) == page >= pages - 1

\* except requests.RequestException: HTTPError (raise_for_status) and
\* ConnectionError are both subclasses of it
IsHTTPError(kind) == kind = "http_error"
IsRequestException(kind) == kind \in {"http_error", "conn_error"}

\* the answers of the list endpoint once self.data holds d
ListResponses(d) ==
  {[kind |-> "ok", items |-> it, pages |-> p] :
      it \in {x \in SeqsUpTo(FetchRecords, MaxItems) : Len(d) + Len(x) <= MaxData},
      p \in 0..MaxPages}
    \cup {[kind |-> k, items |-> <<>>, pages |-> 0] : k \in {"http_error", "conn_error"}}

\* the ids passed to a batch
BatchIds == {IntV(1), IntV(0)}


(***************************************************************************)
(* State.                                                                  *)
(***************************************************************************)
VARIABLES
  data,          \* self.data: the accumulated list
  params,        \* self.params: 'page' and 'employer_id' (None until first set)
  pc,            \* "idle": no call in progress; "loop": in the for loop of
                 \* load_vacancies_by_emp_ids; "lookup": the lookup request of
                 \* check_existence is in flight; "list": a list request is in flight
  mode,          \* the call in progress or last made: "single" or "batch"
  todo,          \* the ids the for loop has not reached yet
  cur,           \* employer_id of the current load_vacancy_by_emp_id call
  outcome,       \* what the last top-level load call gave its caller
  view,          \* what the last projection gave its caller
  \* history of the current (or last) load_vacancy_by_emp_id call
  empState,      \* "none", "running", "returned" or "raised"
  empErr,        \* the exception it raised
  callData,      \* self.data when it was called
  pageAtCall,    \* self.params['page'] when it was called
  lookups,       \* the lookup requests it issued
  lookupResult,  \* the answer to its lookup, and what check_existence made of it
  listReqs,      \* the page indices of the list requests it issued, in order
  pagesSeen,     \* the "pages" values of its successful list responses, in order
  got,           \* the items of its successful list responses, concatenated
  failedAt,      \* the page index whose list request failed, or -1
  \* history of the current (or last) load_vacancies_by_emp_ids call
  batchIds,      \* the list it was given
  processed      \* the ids load_vacancy_by_emp_id was invoked with, in order

vars == <<data, params, pc, mode, todo, cur, outcome, view, empState, empErr,
          callData, pageAtCall, lookups, lookupResult, listReqs, pagesSeen, got,
          failedAt, batchIds, processed>>

hist == <<empState, empErr, callData, pageAtCall, lookups, lookupResult, listReqs,
          pagesSeen, got, failedAt>>

NoLookup == [kind |-> "none", status |-> 0, result |-> NoOutcome]

\* __init__
InitClient ==
  /\ data = <<>>
  /\ params = [page |-> 0, employer_id |-> None]
  /\ pc = "idle"
  /\ mode = "single"
  /\ todo = <<>>
  /\ cur = None
  /\ outcome = NoOutcome
  /\ view = NoView
  /\ empState = "none"
  /\ empErr = NoOutcome
  /\ callData = <<>>
  /\ pageAtCall = 0
  /\ lookups = 0
  /\ lookupResult = NoLookup
  /\ listReqs = <<>>
  /\ pagesSeen = <<>>
  /\ got = <<>>
  /\ failedAt = -1
  /\ batchIds = <<>>
  /\ processed = <<>>

Init == InitClient

(***************************************************************************)
(* load_vacancy_by_emp_id.                                                 *)
(***************************************************************************)
\* an exception leaves load_vacancy_by_emp_id; nothing catches it, in the for
\* loop of load_vacancies_by_emp_ids either, so it reaches the top-level caller
Propagate(e) ==
  /\ empState' = "raised"
  /\ empErr' = e
  /\ outcome' = e
  /\ pc' = "idle"

\* load_vacancy_by_emp_id returns normally, to the for loop or to the caller
ReturnFromLoad ==
  /\ empState' = "returned"
  /\ empErr' = NoOutcome
  /\ IF mode = "batch"
     THEN pc' = "loop" /\ outcome' = NoOutcome
     ELSE pc' = "idle" /\ outcome' = Return(None)

\* the call, up to the lookup request of check_existence being sent
Enter(employer_id) ==
  /\ cur' = employer_id
  /\ callData' = data
  /\ pageAtCall' = params.page
  /\ lookupResult' = NoLookup
  /\ listReqs' = <<>>
  /\ pagesSeen' = <<>>
  /\ got' = <<>>
  /\ failedAt' = -1
  /\ view' = NoView
  /\ UNCHANGED <<data, params>>
  /\ LET r == valid_id(employer_id) IN
     IF r.kind = "return"
     THEN /\ lookups' = 1
          /\ empState' = "running"
          /\ empErr' = NoOutcome
          /\ outcome' = NoOutcome
          /\ pc' = "lookup"
     ELSE /\ lookups' = 0
          /\ Propagate(r)

\* a caller invokes load_vacancy_by_emp_id directly
LoadOne ==
  /\ pc = "idle"
  /\ \E employer_id \in IdArgs :
       /\ mode' = "single"
       /\ todo' = <<>>
       /\ batchIds' = <<>>
       /\ processed' = <<>>
       /\ Enter(employer_id)

\* the answer to the lookup arrives: the rest of check_existence, then the
\* set-up of the loop and its first list request
LookupAnswer ==
  /\ pc = "lookup"
  /\ \E resp \in LookupResponses :
       LET r == check_existence(resp) IN
       /\ lookupResult' = [kind |-> resp.kind, status |-> resp.status, result |-> r]
       /\ IF r.kind = "return"
          THEN /\ params' = [page |-> ResetPage(params.page), employer_id |-> cur]
               /\ listReqs' = Append(listReqs, params'.page)
               /\ pc' = "list"
               /\ UNCHANGED <<empState, empErr, outcome>>
          ELSE /\ Propagate(r)
               /\ UNCHANGED <<params, listReqs>>
  /\ UNCHANGED <<data, mode, todo, cur, view, callData, pageAtCall, lookups,
                 pagesSeen, got, failedAt, batchIds, processed>>

\* the answer to a list request arrives: one pass through the body of the loop
ListAnswer ==
  /\ pc = "list"
  /\ \E resp \in ListResponses(data) :
       IF resp.kind = "ok"
       THEN /\ data' = Extend(data, resp.items)
            /\ got' = got \o resp.items
            /\ pagesSeen' = Append(pagesSeen, resp.pages)
            /\ failedAt' = failedAt
            /\ IF LastPage(params.page, resp.pages)
               THEN /\ ReturnFromLoad
                    /\ UNCHANGED <<params, listReqs>>
               ELSE /\ params' = [params EXCEPT !.page = @ + 1]
                    /\ listReqs' = Append(listReqs, params'.page)
                    /\ UNCHANGED <<pc, empState, empErr, outcome>>
       ELSE /\ failedAt' = params.page
            /\ UNCHANGED <<data, got, pagesSeen, params, listReqs>>
            /\ IF IsRequestException(resp.kind)
               THEN ReturnFromLoad
               ELSE Propagate(Raise("RequestException", resp.kind))
  /\ UNCHANGED <<mode, todo, cur, view, callData, pageAtCall, lookups, lookupResult,
                 batchIds, processed>>

(***************************************************************************)
(* load_vacancies_by_emp_ids.                                              *)
(***************************************************************************)
LoadMany ==
  /\ pc = "idle"
  /\ \E emp_ids \in SeqsUpTo(BatchIds, MaxBatch) :
       /\ mode' = "batch"
       /\ batchIds' = emp_ids
       /\ todo' = emp_ids
       /\ processed' = <<>>
       /\ pc' = "loop"
       /\ outcome' = NoOutcome
       /\ view' = NoView
       /\ cur' = None
       /\ empState' = "none"
       /\ empErr' = NoOutcome
       /\ callData' = data
       /\ pageAtCall' = params.page
       /\ lookups' = 0
       /\ lookupResult' = NoLookup
       /\ listReqs' = <<>>
       /\ pagesSeen' = <<>>
       /\ got' = <<>>
       /\ failedAt' = -1
  /\ UNCHANGED <<data, params>>

\* for employer_id in emp_ids: the next iteration, or the end of the loop
LoopIter ==
  /\ pc = "loop"
  /\ IF todo = <<>>
     THEN /\ pc' = "idle"
          /\ outcome' = Return(None)
          /\ UNCHANGED <<data, params, mode, todo, cur, view, hist, batchIds, processed>>
     ELSE /\ todo' = Tail(todo)
          /\ processed' = Append(processed, Head(todo))
          /\ UNCHANGED <<mode, batchIds>>
          /\ Enter(Head(todo))

(***************************************************************************)
(* The projections.                                                        *)
(***************************************************************************)
Project(result) ==
  /\ pc = "idle"
  /\ view' = result
  /\ UNCHANGED <<data, params, pc, mode, todo, cur, outcome, hist, batchIds, processed>>

GetInfo      == Project(get_info(data))
GetAreas     == Project(get_areas(data))
GetEmployers == Project(get_employers(data))
GetVacancies == Project(get_vacancies(data))

Next ==
  \/ LoadOne
  \/ LookupAnswer
  \/ ListAnswer
  \/ LoadMany
  \/ LoopIter
  \/ GetInfo
  \/ GetAreas
  \/ GetEmployers
  \/ GetVacancies

Spec == Init /\ [][Next]_vars

(***************************************************************************)
(* The projections on their own: the client holds any accumulated list of  *)
(* at most MaxLen records.                                                 *)
(***************************************************************************)
InitProj ==
  /\ data \in SeqsUpTo(ProjRecords, MaxLen)
  /\ params = [page |-> 0, employer_id |-> None]
  /\ pc = "idle"
  /\ mode = "single"
  /\ todo = <<>>
  /\ cur = None
  /\ outcome = NoOutcome
  /\ view = NoView
  /\ empState = "none"
  /\ empErr = NoOutcome
  /\ callData = data
  /\ pageAtCall = 0
  /\ lookups = 0
  /\ lookupResult = NoLookup
  /\ listReqs = <<>>
  /\ pagesSeen = <<>>
  /\ got = <<>>
  /\ failedAt = -1
  /\ batchIds = <<>>
  /\ processed = <<>>

NextProj ==
  \/ GetInfo
  \/ GetAreas
  \/ GetEmployers
  \/ GetVacancies

SpecProj == InitProj /\ [][NextProj]_vars


(***************************************************************************)
(* Properties.                                                             *)
(***************************************************************************)
\* the page indices 0, 1, ..., n-1
PageIndices(n) == [i \in 1..n |-> i - 1]

IsPrefix(a, b) == Len(a) <= Len(b) /\ SubSeq(b, 1, Len(a)) = a

\* what s holds after its first n elements
After(s, n) == SubSeq(s, n + 1, Len(s))

Max2(a, b) == IF a >= b THEN a ELSE b

RECURSIVE MaxOf(_)
MaxOf(s) == IF s = <<>> THEN 0 ELSE Max2(Head(s), MaxOf(Tail(s)))

\* the decimal value of an id, whether the API sent it as a number or as a string
IdNumber(x) == IF x.t = "str" THEN DigitsValue(x.ds) ELSE x.n

\* C1: when load_vacancies_by_emp_ids is over, load_vacancy_by_emp_id has been
\* invoked for every id of the given list, in the given order, whatever
\* failure occurred while processing one of them.
C1_NoEarlyExit ==
  (mode = "batch" /\ pc = "idle" /\ outcome.kind # "none") => processed = batchIds

\* C2: a load_vacancy_by_emp_id call for a valid, existing employer whose list
\* requests all succeed and all report the same page count P >= 1 issues
\* exactly P list requests, for the pages 0, 1, ..., P-1 in that order, and
\* leaves self.data equal to its value at the call followed by the pages'
\* items in page order, whatever page cursor earlier calls left behind.
C2_ExactlyPRequests ==
  (/\ empState = "returned"
   /\ failedAt = -1
   /\ pagesSeen # <<>>
   /\ pagesSeen[1] >= 1
   /\ \A i \in 1..Len(pagesSeen) : pagesSeen[i] = pagesSeen[1])
  => (/\ listReqs = PageIndices(pagesSeen[1])
      /\ Len(pagesSeen) = pagesSeen[1]
      /\ data = callData \o got)

\* C2 happens: two pages fetched after an earlier call left the cursor on a page > 0
C2_Witness ==
  /\ empState = "returned"
  /\ failedAt = -1
  /\ pagesSeen = <<2, 2>>
  /\ pageAtCall > 0
  /\ callData # <<>>
  /\ got # <<>>

\* C3: when the list request for page k fails with a transport or HTTP error
\* after pages 0..k-1 succeeded, load_vacancy_by_emp_id returns normally, no
\* further list request is issued for that employer, and self.data is its
\* value at the call followed by the items of pages 0..k-1 (unchanged for k = 0).
C3_FailureKeepsPartial ==
  failedAt >= 0 =>
    (/\ empState = "returned"
     /\ empErr = NoOutcome
     /\ outcome.kind # "raise"
     /\ pc \notin {"list", "lookup"}
     /\ listReqs = PageIndices(failedAt + 1)
     /\ Len(pagesSeen) = failedAt
     /\ data = callData \o got
     /\ (failedAt = 0 => data = callData))

\* C3 happens: page 0 delivered a record, page 1 failed
C3_Witness ==
  /\ failedAt = 1
  /\ empState = "returned"
  /\ got # <<>>
  /\ callData # <<>>

\* C4: a load_vacancy_by_emp_id call whose id fails validation, or whose lookup
\* is answered with a status other than 200, raises to the caller, issues no
\* list request (for an invalid id not even the lookup request), and leaves
\* self.data as it was at the call.
C4_RejectedBeforeListing ==
  /\ (empState # "none" /\ valid_id(cur).kind = "raise") =>
       (/\ empState = "raised"
        /\ empErr = InvalidInput
        /\ outcome = InvalidInput
        /\ pc = "idle"
        /\ lookups = 0
        /\ lookupResult = NoLookup
        /\ listReqs = <<>>
        /\ data = callData)
  /\ (lookupResult.kind = "response" /\ lookupResult.status # 200) =>
       (/\ empState = "raised"
        /\ empErr.kind = "raise"
        /\ outcome = empErr
        /\ pc = "idle"
        /\ listReqs = <<>>
        /\ data = callData)

\* C4 happens: in a batch, after records were accumulated, a lookup is answered 500
C4_Witness ==
  /\ mode = "batch"
  /\ lookupResult.kind = "response"
  /\ lookupResult.status = 500
  /\ empState = "raised"
  /\ callData # <<>>

\* C5: check_existence returns True exactly when the lookup status is 200,
\* raises the not-found error exactly when it is 404, raises the
\* lookup-failed error, a different one, for every other status, and issues
\* one lookup request.
C5_CheckExistence ==
  lookupResult.kind = "response" =>
    LET r  == lookupResult.result
        st == lookupResult.status
    IN /\ (r = Return(BoolV(TRUE))) <=> (st = 200)
       /\ (r = NotFound) <=> (st = 404)
       /\ (st \notin {200, 404}) => (r = LookupFailed)
       /\ LookupFailed # NotFound
       /\ lookups = 1

\* C5 happens: a lookup answered 503 raised the lookup-failed error
C5_Witness ==
  /\ lookupResult.kind = "response"
  /\ lookupResult.status = 503
  /\ lookupResult.result = LookupFailed
  /\ empState = "raised"

\* C6: every step leaves the earlier self.data as a prefix of the later one,
\* and a list response appends all of its items, whether or not self.data
\* already holds them.
C6_AppendOnly ==
  [][/\ IsPrefix(data, data')
     /\ (pc = "list" => After(data', Len(data)) = After(got', Len(got)))]_vars

\* C6 happens: the same employer fetched twice in a batch, its record twice in self.data
C6_Witness ==
  /\ processed = <<IntV(1), IntV(1)>>
  /\ empState = "returned"
  /\ callData = <<V1>>
  /\ data = <<V1, V1>>

\* the first position of self.data whose nested object (area or employer) has id k
FirstWith(field, k) ==
  CHOOSE i \in 1..Len(data) :
    /\ data[i][field].id = k
    /\ \A j \in 1..(i - 1) : data[j][field].id # k

FirstWins(op, field) ==
  view.op = op =>
    /\ (\A i \in 1..Len(data) : data[i][field].kind = "object") => view.kind = "return"
    /\ view.kind = "return" =>
         /\ DOMAIN view.val = {data[i][field].id : i \in 1..Len(data)}
         /\ \A k \in DOMAIN view.val :
              /\ view.val[k].name = data[FirstWith(field, k)][field].name
              /\ view.val[k].url = data[FirstWith(field, k)][field].url

\* C7: the map get_areas (get_employers) returns has one entry per distinct
\* area id (employer id) of self.data, holding the name and url of the first
\* record in list order that carries the id.
C7_FirstOccurrenceWins ==
  /\ FirstWins("get_areas", "area")
  /\ FirstWins("get_employers", "employer")

\* C7 happens: get_areas on a list where a later record has the same area id, another name
C7_Witness ==
  /\ view.op = "get_areas"
  /\ view.kind = "return"
  /\ \E i, j \in 1..Len(data) :
       /\ i < j
       /\ data[i].area.id = data[j].area.id
       /\ data[i].area.name # data[j].area.name

\* C8: on well-formed records get_vacancies returns a list as long as
\* self.data whose i-th element comes from the i-th record: its id, area id
\* and employer id as integers, its name, salary-from and url.
C8_OneTuplePerRecord ==
  (view.op = "get_vacancies" /\ \A i \in 1..Len(data) : WellFormed(data[i])) =>
    /\ view.kind = "return"
    /\ Len(view.val) = Len(data)
    /\ \A i \in 1..Len(data) :
         /\ view.val[i].id = IdNumber(data[i].id)
         /\ view.val[i].area_id = IdNumber(data[i].area.id)
         /\ view.val[i].employer_id = IdNumber(data[i].employer.id)
         /\ view.val[i].name = data[i].name
         /\ view.val[i].salary = data[i].salary.from
         /\ view.val[i].url = data[i].url

\* C8 happens: get_vacancies on a list that repeats a record whose id is a string
C8_Witness ==
  /\ view.op = "get_vacancies"
  /\ view.kind = "return"
  /\ Len(data) >= 3
  /\ data[1] = data[3]
  /\ data[1] # data[2]
  /\ data[1].id.t = "str"

\* C9: valid_id returns its argument unchanged for every positive integer and
\* raises the invalid-id error for every other value, booleans included.
C9_OnlyPositiveIntegers ==
  empState # "none" =>
    IF IsPositiveInteger(cur)
    THEN valid_id(cur) = Return(cur) /\ empErr # InvalidInput
    ELSE empErr = InvalidInput

\* C10: the loop issues at least one list request, for the pages 0, 1, ... in
\* order; it reads the page count p of every successful response and stops
\* at the first one with (page index >= p - 1), going on otherwise; a
\* response reporting 0 pages ends it after one request; it never issues
\* more than max(1, P) requests, P the largest page count reported.
C10_LoopStops ==
  /\ empState = "returned" => Len(listReqs) >= 1
  /\ listReqs = PageIndices(Len(listReqs))
  /\ Len(listReqs) <= Max2(1, MaxOf(pagesSeen))
  /\ \A i \in 1..Len(pagesSeen) :
       IF i - 1 >= pagesSeen[i] - 1
       THEN i = Len(pagesSeen) /\ Len(listReqs) = i /\ empState = "returned"
       ELSE Len(listReqs) >= i + 1
  /\ (pagesSeen # <<>> /\ pagesSeen[1] = 0) => (Len(listReqs) = 1 /\ empState = "returned")
  /\ empState = "returned" => pc \in {"idle", "loop"}

\* C10 happens: the first response reported 2 pages, the second 1, and the loop stopped there
C10_Witness ==
  /\ empState = "returned"
  /\ failedAt = -1
  /\ pagesSeen = <<2, 1>>
  /\ listReqs = <<0, 1>>

====
